---- MODULE Spec2Model ----
(***************************************************************************)
(* OpenCursor: the autonomous agent loop (CodeAgent), the conversation     *)
(* kept by LLMClient and the tool dispatcher (Tools.process_tool_calls).   *)
(* Python values are tagged records, texts are TLA+ strings built with \o  *)
(* the way the f-strings of the source build them.                         *)
(***************************************************************************)
EXTENDS Integers, Sequences, FiniteSets, TLC

VARIABLES
    messages,            \* LLMClient.messages
    no_think,            \* LLMClient.no_think
    custom_system_prompt,\* CodeAgent.custom_system_prompt
    max_iterations,      \* CodeAgent.max_iterations
    available_functions, \* Tools.available_functions (its keys)
    tools,               \* Tools.tools (the schema names, in list order)
    pc,                  \* where the running entry point is suspended
    mode,                \* entry point of the current task
    instructions,        \* user_message of the current task
    i,                   \* loop variable of autonomous_mode
    execution_log,       \* execution_log of autonomous_mode
    response,            \* response of the loop's last chat call
    final_response,      \* final_response of the recovery chat call
    k,                   \* 1-based position of process_tool_calls in tool_calls
    results,             \* results of process_tool_calls
    returned,            \* value returned by the entry point
    raised,              \* exception that left the entry point
    sent,                \* chat_options of the last call of client.chat
    gateway_calls,       \* calls of client.chat made by the current task
    invoked,             \* (turn, position) of the turn's calls of a callable
    effects,             \* the turn's commands and file accesses that ran
    subprocesses,        \* the turn's commands left running by run_terminal_cmd
    tasks,               \* entry-point calls made so far
    first_sent,          \* chat_options of the first client.chat call of the task
    registrations,       \* the calls of register_function made on the Tools
    request,             \* what the user submitted to the front end
    files,               \* the text files of the workspace
    last_call            \* the last call of a file tool made directly

vars == <<messages, no_think, custom_system_prompt, max_iterations,
          available_functions, tools, pc, mode, instructions, i,
          execution_log, response, final_response, k, results, returned,
          raised, sent, gateway_calls, invoked, effects, subprocesses, tasks,
          first_sent, registrations,
                   request, files, last_call>>

-----------------------------------------------------------------------------
(* Bounds of the model *)

\* max_iterations is 100 in the source; the model runs the same loop with a
\* smaller cap.
MaxIterations == 2
\* longest tool_calls list of one gateway response
MaxToolCalls == 2
\* entry-point calls on one CodeAgent
MaxTasks == 2
\* the cap of the loop in the runs of the dispatcher
DispatchIterations == 1
\* calls of register_function made by the user of a Tools
MaxRegistrations == 2

-----------------------------------------------------------------------------
(* Python values *)

None == [type |-> "NoneType"]
Str(s) == [type |-> "str", value |-> s]
PyInt(n) == [type |-> "int", value |-> n]
PyList(l) == [type |-> "list", value |-> l]
PyDict(d) == [type |-> "dict", value |-> d]

\* str.strip() on the texts of the model: whitespace-only text strips to ''
Whitespace == {"", " ", "\n"}
strip(s) == IF s \in Whitespace THEN "" ELSE s

\* truth value of a Python object
truthy(v) ==
    CASE v.type = "NoneType" -> FALSE
      [] v.type = "str" -> v.value # ""
      [] v.type = "int" -> v.value # 0
      [] v.type = "list" -> v.value # <<>>
      [] OTHER -> TRUE

RECURSIVE join(_, _)
\* sep.join(lines) for a list of texts
join(sep, lines) ==
    IF lines = <<>> THEN ""
    ELSE IF Len(lines) = 1 THEN lines[1]
    ELSE lines[1] \o sep \o join(sep, Tail(lines))

-----------------------------------------------------------------------------
(* prompts.py and the texts of agent.py *)

SYSTEM_PROMPT == "SYSTEM_PROMPT"
AUTONOMOUS_AGENT_PROMPT == "AUTONOMOUS_AGENT_PROMPT"
INTERACTIVE_AGENT_PROMPT == "INTERACTIVE_AGENT_PROMPT"

\* the prompt says 'You MUST NOT ask the user for clarification': of the
\* three prompts only AUTONOMOUS_AGENT_PROMPT does, SYSTEM_PROMPT says 'ask
\* the user to supply these values'
forbids_clarification(prompt) == prompt = AUTONOMOUS_AGENT_PROMPT

\* the prompt says 'Suggest ONE tool call at a time' and 'Wait for user
\* approval before proceeding': only INTERACTIVE_AGENT_PROMPT does
requires_approval(prompt) == prompt = INTERACTIVE_AGENT_PROMPT
SUMMARY_REQUEST ==
    "Now that you've completed the task, provide a summary of what you've done."
NO_THINK == " /no_think"
SUMMARY_HEADER == "\n\n[Execution Summary]\n"

\* mutant: the summary header is left out
FinalText_without_header(content, log) == content \o "\n" \o join("\n", log)

FinalText(content, log) == content \o SUMMARY_HEADER \o join("\n", log)

CappedText(n, log) ==
    "I've reached the maximum number of steps (" \o ToString(n)
    \o ") without completing the task. Here's what I've done so far:"
    \o SUMMARY_HEADER \o join("\n", log)

-----------------------------------------------------------------------------
(* LLMClient *)

\* mutant: the message is inserted at the front
add_message_at_front(msgs, role, content, name) ==
    <<IF truthy(name) /\ role = "tool"
      THEN [role |-> role, content |-> content, name |-> name.value]
      ELSE [role |-> role, content |-> content]>> \o msgs

\* LLMClient.add_message: the name is kept only for a tool message with a
\* non-empty name
add_message(msgs, role, content, name) ==
    Append(msgs,
           IF truthy(name) /\ role = "tool"
           THEN [role |-> role, content |-> content, name |-> name.value]
           ELSE [role |-> role, content |-> content])

\* mutant: the user message is sent as given, whatever no_think says
chat_messages_never_tagged(msgs, user_message) ==
    IF strip(user_message) # ""
    THEN add_message(msgs, "user", Str(user_message), None)
    ELSE msgs

\* LLMClient.chat up to the call of client.chat: the conversation after the
\* optional user message
chat_messages(msgs, user_message) ==
    IF strip(user_message) # ""
    THEN add_message(msgs, "user",
                     Str(IF no_think THEN user_message \o NO_THINK
                         ELSE user_message), None)
    ELSE msgs

\* chat_options of LLMClient.chat
chat_options(msgs, user_message, tools_arg) ==
    [messages |-> chat_messages(msgs, user_message),
     tools |-> IF truthy(tools_arg) THEN tools_arg ELSE None]

\* mutant: a response without text leaves no assistant message
chat_reply_only_text(msgs, resp) ==
    IF resp.content # ""
    THEN add_message(msgs, "assistant", Str(resp.content), None)
    ELSE msgs

\* mutant: the assistant message is appended twice
chat_reply_twice(msgs, resp) ==
    add_message(add_message(msgs, "assistant", Str(resp.content), None),
                "assistant", Str(resp.content), None)

\* LLMClient.chat after client.chat returned: the assistant message
chat_reply(msgs, resp) == add_message(msgs, "assistant", Str(resp.content), None)

-----------------------------------------------------------------------------
(* Tools: the registry *)

\* a tool schema, as far as the registry and the gateway look at it: its
\* 'name' and the 'required' list of its parameters
Schema(name, required) ==
    [type |-> "function", name |-> name, required |-> required]

\* the parameters without a default value in the def of a registered function
mandatory(func_name) ==
    CASE func_name = "read_file" -> {"target_file"}
      [] func_name = "python_edit_file" -> {"target_file", "code_edit"}
      [] func_name = "list_dir" -> {}
      [] func_name = "file_search" -> {"query"}
      [] func_name = "delete_file" -> {"target_file"}
      [] func_name = "search_replace" -> {"file_path", "old_string", "new_string"}
      [] func_name = "text_file_edit" -> {"file", "old_str", "new_str"}
      [] func_name = "run_terminal_cmd" -> {"command"}
      [] func_name = "fetch_webpage" -> {"urls"}
      [] func_name = "semantic_search" -> {"query"}
      [] func_name = "codebase_search" -> {"query"}
      [] func_name = "reapply" -> {"target_file"}
      [] func_name = "list_code_usages" -> {"symbol_name"}
      [] func_name = "diff_history" -> {}
      [] func_name = "grep_search" -> {"query"}
      [] func_name = "add_two_numbers" -> {"a", "b"}
      [] func_name = "subtract_two_numbers" -> {"a", "b"}
      [] func_name = "web_search" -> {"search_term"}
      [] func_name = "search_in_docs_with_keyboard_shortcut" -> {"query"}
      [] func_name = "search_in_docs_with_dom_element" -> {"query"}
      [] OTHER -> {}

\* the schema register_function builds from the signature: every parameter of
\* the registered functions is annotated, and those without a default value
\* are listed as required
signature_schema(func_name) == Schema(func_name, mandatory(func_name))

\* Tools.register_function on the pair (available_functions, tools): the key
\* is func.__name__, the schema is the custom one when there is one
register_function(reg, func_name, custom_schema) ==
    [available_functions |-> reg.available_functions \cup {func_name},
     tools |-> Append(reg.tools,
                      IF truthy(custom_schema) THEN custom_schema
                      ELSE signature_schema(func_name))]

RECURSIVE register_each(_, _)
register_each(reg, funcs) ==
    IF funcs = <<>> THEN reg
    ELSE register_each(register_function(reg, funcs[1][1], funcs[1][2]),
                       Tail(funcs))

\* Tools.register_file_tools
register_file_tools(reg) ==
    register_each(reg, << <<"read_file", None>>, <<"python_edit_file", None>>,
                          <<"list_dir", None>>, <<"read_file", None>>,
                          <<"list_dir", None>>, <<"file_search", None>>,
                          <<"delete_file", None>>, <<"search_replace", None>>,
                          <<"text_file_edit", None>> >>)

\* Tools.register_terminal_tools: the callable and its hand-written schema
\* are stored without register_function
register_terminal_tools(reg) ==
    [available_functions |-> reg.available_functions \cup {"run_terminal_cmd"},
     tools |-> Append(reg.tools,
                      Schema("run_terminal_cmd",
                             {"command", "is_background",
                              "require_user_approval"}))]

\* Tools.register_semantic_tools
register_semantic_tools(reg) ==
    register_each(reg, << <<"fetch_webpage", None>>, <<"semantic_search", None>>,
                          <<"codebase_search", None>>, <<"reapply", None>>,
                          <<"list_code_usages", None>>, <<"diff_history", None>>,
                          <<"grep_search", None>> >>)

\* Tools.register_math_tools
register_math_tools(reg) ==
    register_each(reg, << <<"add_two_numbers", None>>,
                          <<"subtract_two_numbers", None>> >>)

\* tool_playwright.register_playwright_search_tool
register_playwright_search_tool(reg) ==
    register_function(reg, "web_search", Schema("web_search", {"search_term"}))

\* tool_browser.register_browser_search_tools
register_browser_search_tools(reg) ==
    register_each(reg,
        << <<"search_in_docs_with_keyboard_shortcut",
             Schema("search_in_docs_with_keyboard_shortcut", {"query"})>>,
           <<"search_in_docs_with_dom_element",
             Schema("search_in_docs_with_dom_element", {"query"})>> >>)

\* Tools.register_all_tools
register_all_tools(reg) ==
    register_browser_search_tools(
      register_playwright_search_tool(
        register_math_tools(
          register_semantic_tools(
            register_terminal_tools(
              register_file_tools(reg))))))

\* CodeAgent.register_tools
register_tools(reg) == register_playwright_search_tool(register_all_tools(reg))

\* Tools.__init__
EmptyRegistry == [available_functions |-> {}, tools |-> <<>>]

-----------------------------------------------------------------------------
(* What the model gateway and the tools can produce *)

\* response.message.content of a gateway response
Contents == {"", " ", "The result is 4"}

EmptyArgs == [x \in {} |-> x]

\* dict.get(key, default) on the arguments of a tool call
get(args, key, default) == IF key \in DOMAIN args THEN args[key] ELSE default

ToolCall(name, args) == [function |-> [name |-> name, arguments |-> args]]

\* the tool calls the gateway requests in the runs of the agent loop: a
\* well-formed call of a registered tool and a call of an unknown tool
LoopRequests ==
    { ToolCall("read_file", [target_file |-> "a.py"]),
      ToolCall("frobnicate", EmptyArgs) }

\* the tool calls the gateway requests in the runs of the dispatcher: a file
\* access, a call with a missing argument, a background command and a
\* foreground command the user has to approve
DispatchRequests ==
    { ToolCall("read_file", [target_file |-> "a.py"]),
      ToolCall("read_file", EmptyArgs),
      ToolCall("run_terminal_cmd",
               [command |-> "make", is_background |-> TRUE,
                require_user_approval |-> FALSE]),
      ToolCall("run_terminal_cmd",
               [command |-> "make", is_background |-> FALSE,
                require_user_approval |-> TRUE]) }

\* the pages the browser can load
Pages == {"https://docs.example.com"}

\* the tool calls the gateway requests in the runs about the recorded
\* results: a call without a name, a tool that returns an integer and the
\* documentation search on a page that loads and on one that does not
ResultRequests ==
    { ToolCall("", EmptyArgs),
      ToolCall("add_two_numbers", [a |-> 2, b |-> 2]),
      ToolCall("search_in_docs_with_keyboard_shortcut",
               [query |-> "install", url |-> "https://docs.example.com"]),
      ToolCall("search_in_docs_with_keyboard_shortcut",
               [query |-> "install", url |-> "https://down.example.com"]) }

RECURSIVE SeqsUpTo(_, _)
SeqsUpTo(S, n) ==
    IF n = 0 THEN {<<>>}
    ELSE LET shorter == SeqsUpTo(S, n - 1)
         IN shorter \cup {Append(q, x) : q \in shorter, x \in S}

\* the responses of a gateway that requests tool calls among requests, with a
\* content among contents next to them
ResponsesOf(requests, contents) ==
    [content : Contents, tool_calls : {<<>>}]
    \cup [content : contents,
          tool_calls : SeqsUpTo(requests, MaxToolCalls) \ {<<>>}]

Responses == ResponsesOf(LoopRequests, {"", "The result is 4"})

DispatchResponses == ResponsesOf(DispatchRequests, {""})

ResultResponses == ResponsesOf(ResultRequests, {""})

\* the tool call the gateway requests in the runs over the configurations of
\* the agent
ConfigRequests == { ToolCall("read_file", [target_file |-> "a.py"]) }

ConfigResponses == ResponsesOf(ConfigRequests, {""})

\* the system_prompt argument of CodeAgent(): the default and a custom text
SystemPrompts == {None, Str("You are a code reviewer.")}

\* what the user asks for
Instructions == {"Add 2 and 2", "Fix the bug"}

\* what the user types at the approval prompt of run_terminal_cmd
Confirmations == {"y", "n"}

-----------------------------------------------------------------------------
(* The registered callables *)

Return(v) == [kind |-> "return", value |-> v]
Raise(msg) == [kind |-> "raise", message |-> msg]

\* read_file(**args): a missing target_file is a TypeError of the call
read_file(args) ==
    IF "target_file" \in DOMAIN args
    THEN Return(Str("Contents of " \o args.target_file))
    ELSE Raise("read_file() missing 1 required positional argument: 'target_file'")

\* add_two_numbers(**args)
add_two_numbers(args) ==
    IF {"a", "b"} \subseteq DOMAIN args
    THEN Return(PyInt(args.a + args.b))
    ELSE Raise("add_two_numbers() missing required positional arguments")

\* search_in_docs_with_keyboard_shortcut(**args): the JSON text of the
\* results, or the dict the browser returns when anything failed on the page
search_in_docs_with_keyboard_shortcut(args) ==
    IF "query" \notin DOMAIN args
    THEN Raise("search_in_docs_with_keyboard_shortcut() missing 1 required positional argument: 'query'")
    ELSE IF get(args, "url", "") \in Pages
    THEN Return(Str("{query: " \o args.query \o ", total_results: 0, results: []}"))
    ELSE Return(PyDict([error |-> "net::ERR_NAME_NOT_RESOLVED",
                        query |-> args.query,
                        url |-> get(args, "url", ""),
                        results |-> <<>>]))

\* mutant: run_terminal_cmd returns without waiting for a foreground command
run_terminal_cmd_never_waits(args, confirmation) ==
    IF "command" \notin DOMAIN args
    THEN [outcome |-> Raise("run_terminal_cmd() missing 1 required positional argument: 'command'"),
          effect |-> "none"]
    ELSE IF get(args, "require_user_approval", TRUE)
            /\ confirmation # "y" /\ confirmation # "yes"
    THEN [outcome |-> Return(Str("Command execution cancelled by user")),
          effect |-> "none"]
    ELSE IF get(args, "is_background", FALSE)
    THEN [outcome |-> Return(Str("Running command in background: " \o args.command)),
          effect |-> "background"]
    ELSE [outcome |-> Return(Str("Command output:\n" \o "ok")),
          effect |-> "background"]

\* run_terminal_cmd(**args) for the answer the user gives at the prompt:
\* what it returns, and whether the command did not start ("none"), ran to
\* its end before the return ("done") or was left running ("background")
run_terminal_cmd(args, confirmation) ==
    IF "command" \notin DOMAIN args
    THEN [outcome |-> Raise("run_terminal_cmd() missing 1 required positional argument: 'command'"),
          effect |-> "none"]
    ELSE IF get(args, "require_user_approval", TRUE)
            /\ confirmation # "y" /\ confirmation # "yes"
    THEN [outcome |-> Return(Str("Command execution cancelled by user")),
          effect |-> "none"]
    ELSE IF get(args, "is_background", FALSE)
    THEN [outcome |-> Return(Str("Running command in background: " \o args.command)),
          effect |-> "background"]
    ELSE [outcome |-> Return(Str("Command output:\n" \o "ok")),
          effect |-> "done"]

\* function(**function_args) of process_tool_calls for a registered name
call_function(name, args, confirmation) ==
    CASE name = "read_file" ->
           LET o == read_file(args)
           IN [outcome |-> o,
               effect |-> IF o.kind = "return" THEN "done" ELSE "none"]
      [] name = "add_two_numbers" ->
           [outcome |-> add_two_numbers(args), effect |-> "none"]
      [] name = "run_terminal_cmd" -> run_terminal_cmd(args, confirmation)
      [] name = "search_in_docs_with_keyboard_shortcut" ->
           [outcome |-> search_in_docs_with_keyboard_shortcut(args),
            effect |-> "none"]
      [] OTHER ->
           [outcome |-> Return(Str("ok")), effect |-> "none"]

-----------------------------------------------------------------------------
(* Tools.process_tool_calls *)

\* the conversion of a result before it is appended
format_result(result) ==
    IF result.type = "int" THEN Str(ToString(result.value))
    ELSE IF result.type = "list" THEN Str(join("\n", result.value))
    ELSE result

\* the text recorded for an outcome of the callable
result_text(function_name, outcome) ==
    IF outcome.kind = "return" THEN format_result(outcome.value)
    ELSE Str("Error executing " \o function_name \o ": " \o outcome.message)

not_found_text(function_name) == Str("Function " \o function_name \o " not found")

-----------------------------------------------------------------------------
(* CodeAgent *)

NoResponse == [content |-> "", tool_calls |-> <<>>]
NoRequest == [messages |-> <<>>, tools |-> None]

\* the system message of autonomous_mode
autonomous_system_prompt ==
    IF truthy(custom_system_prompt) THEN custom_system_prompt
    ELSE Str(SYSTEM_PROMPT)

\* the system message of interactive
interactive_system_prompt ==
    IF truthy(custom_system_prompt) THEN custom_system_prompt
    ELSE Str(INTERACTIVE_AGENT_PROMPT)

\* mutant: the conversation is not reset
seed_without_reset(msgs, system_prompt, user_message) ==
    add_message(add_message(msgs, "system", system_prompt, None),
                "user", Str("Task: " \o user_message), None)

\* the conversation an entry point starts from: reset, system, user
seed(msgs, system_prompt, user_message) ==
    add_message(add_message(<<>>, "system", system_prompt, None),
                "user", Str("Task: " \o user_message), None)

\* tool_info of the execution log
tool_info(tc) ==
    LET name == tc.function.name
        args == tc.function.arguments
    IN  IF name = "read_file" THEN "Reading " \o get(args, "target_file", "")
        ELSE IF name = "list_dir"
             THEN "Listing " \o get(args, "relative_workspace_path", "")
        ELSE IF name = "edit_file" THEN "Editing " \o get(args, "target_file", "")
        ELSE name

step_entry(n, text) == "Step " \o ToString(n + 1) \o ": " \o text

\* mutant: one entry for the whole turn, that of its first tool call
log_first_tool_call(log, n, tool_calls) ==
    IF tool_calls = <<>> THEN log
    ELSE Append(log, step_entry(n, tool_info(tool_calls[1])))

RECURSIVE log_tool_calls(_, _, _)
\* the entries the loop appends for the tool calls of iteration n
log_tool_calls(log, n, tool_calls) ==
    IF tool_calls = <<>> THEN log
    ELSE log_tool_calls(Append(log, step_entry(n, tool_info(tool_calls[1]))),
                        n, Tail(tool_calls))

\* mutant: a response with text counts as having no tool calls
has_tool_calls_without_text(resp) ==
    resp.tool_calls # <<>> /\ strip(resp.content) = ""

\* response.message.tool_calls is truthy
has_tool_calls(resp) == resp.tool_calls # <<>>

\* response.message.content.strip() is truthy
has_content(resp) == strip(resp.content) # ""

\* mutant: the loop runs once more
in_range_inclusive(n) == n <= max_iterations

\* range(self.max_iterations) yields n
in_range(n) == n < max_iterations

Idle == pc \in {"Idle", "Done", "Failed"}

\* autonomous_mode up to its first chat call
autonomous_mode(user_message) ==
    /\ Idle /\ tasks < MaxTasks
    /\ tasks' = tasks + 1
    /\ mode' = "autonomous"
    /\ instructions' = user_message
    /\ messages' = seed(messages, autonomous_system_prompt, user_message)
    /\ execution_log' = <<>>
    /\ i' = 0
    /\ pc' = "Loop"
    /\ response' = NoResponse /\ final_response' = NoResponse
    /\ k' = 0 /\ results' = <<>>
    /\ returned' = None /\ raised' = None
    /\ sent' = NoRequest /\ first_sent' = NoRequest /\ gateway_calls' = 0
    /\ invoked' = <<>> /\ effects' = <<>> /\ subprocesses' = {}
    /\ UNCHANGED <<no_think, custom_system_prompt, max_iterations,
                   available_functions, tools,
                   registrations,
                   files, last_call>>

\* a caller of the agent awaits autonomous_mode(user_message)
StartAutonomous(user_message) ==
    autonomous_mode(user_message) /\ UNCHANGED request

\* the request that leaves LLMClient.chat
Send(user_message, tools_arg) ==
    LET opts == chat_options(messages, user_message, tools_arg)
    IN  /\ messages' = opts.messages
        /\ sent' = opts
        /\ first_sent' = IF gateway_calls = 0 THEN opts ELSE first_sent
        /\ gateway_calls' = gateway_calls + 1

\* head of the loop: the next chat call
LoopChat ==
    /\ pc = "Loop" /\ in_range(i)
    /\ Send("", PyList(tools))
    /\ pc' = "AwaitingModel"
    /\ UNCHANGED <<no_think, custom_system_prompt, max_iterations,
                   available_functions, tools, mode, instructions, i,
                   execution_log, response, final_response, k, results,
                   returned, raised, invoked, effects, subprocesses, tasks,
                   registrations,
                   request, files, last_call>>

\* the loop ran out: the capped outcome
LoopCapped ==
    /\ pc = "Loop" /\ ~in_range(i)
    /\ returned' = Str(CappedText(max_iterations, execution_log))
    /\ pc' = "Done"
    /\ UNCHANGED <<messages, no_think, custom_system_prompt, max_iterations,
                   available_functions, tools, mode, instructions, i,
                   execution_log, response, final_response, k, results,
                   raised, sent, first_sent, gateway_calls, invoked, effects,
                   subprocesses, tasks,
                   registrations,
                   request, files, last_call>>

\* mutant: a failed call is swallowed and the loop tries again
ChatFails_and_retries ==
    /\ pc \in {"AwaitingModel", "AwaitingSummary", "AwaitingPlan"}
    /\ pc' = "Loop"
    /\ UNCHANGED <<messages, no_think, custom_system_prompt, max_iterations,
                   available_functions, tools, mode, instructions, i,
                   execution_log, response, final_response, k, results,
                   returned, raised, sent, first_sent, gateway_calls, invoked,
                   effects, subprocesses, tasks,
                   registrations,
                   request, files, last_call>>

\* client.chat raises: nothing catches it in chat, autonomous_mode or interactive
ChatFails ==
    /\ pc \in {"AwaitingModel", "AwaitingSummary", "AwaitingPlan"}
    /\ raised' = Str("GatewayUnavailable")
    /\ pc' = "Failed"
    /\ UNCHANGED <<messages, no_think, custom_system_prompt, max_iterations,
                   available_functions, tools, mode, instructions, i,
                   execution_log, response, final_response, k, results,
                   returned, sent, first_sent, gateway_calls, invoked, effects,
                   subprocesses, tasks,
                   registrations,
                   request, files, last_call>>

\* the loop's chat call returns a response with tool calls
ChatReturnsToolCalls(resp) ==
    /\ pc = "AwaitingModel" /\ has_tool_calls(resp)
    /\ messages' = chat_reply(messages, resp)
    /\ response' = resp
    /\ execution_log' = log_tool_calls(execution_log, i, resp.tool_calls)
    /\ pc' = "Dispatching"
    /\ k' = 1 /\ results' = <<>>
    /\ invoked' = <<>> /\ effects' = <<>> /\ subprocesses' = {}
    /\ UNCHANGED <<no_think, custom_system_prompt, max_iterations,
                   available_functions, tools, mode, instructions, i,
                   final_response, returned, raised, sent, first_sent,
                   gateway_calls, tasks,
                   registrations,
                   request, files, last_call>>

\* the loop's chat call returns a response without tool calls and with text
ChatReturnsFinal(resp) ==
    /\ pc = "AwaitingModel" /\ ~has_tool_calls(resp) /\ has_content(resp)
    /\ messages' = chat_reply(messages, resp)
    /\ response' = resp
    /\ execution_log' = Append(execution_log, step_entry(i, "Final response"))
    /\ returned' = Str(FinalText(resp.content, execution_log'))
    /\ pc' = "Done"
    /\ UNCHANGED <<no_think, custom_system_prompt, max_iterations,
                   available_functions, tools, mode, instructions, i,
                   final_response, k, results, raised, sent, first_sent,
                   gateway_calls, invoked, effects, subprocesses, tasks,
                   registrations,
                   request, files, last_call>>

\* mutant: the recovery call advertises the tools
ChatReturnsEmpty_with_tools(resp) ==
    /\ pc = "AwaitingModel" /\ ~has_tool_calls(resp) /\ ~has_content(resp)
    /\ response' = resp
    /\ execution_log' = Append(execution_log, step_entry(i, "Final response"))
    /\ LET opts == chat_options(chat_reply(messages, resp), SUMMARY_REQUEST,
                                PyList(tools))
       IN  /\ messages' = opts.messages
           /\ sent' = opts
    /\ gateway_calls' = gateway_calls + 1
    /\ pc' = "AwaitingSummary"
    /\ UNCHANGED <<no_think, custom_system_prompt, max_iterations,
                   available_functions, tools, mode, instructions, i,
                   final_response, k, results, returned, raised, first_sent,
                   invoked, effects, subprocesses, tasks,
                   registrations,
                   request, files, last_call>>

\* the loop's chat call returns neither tool calls nor text: the recovery call
ChatReturnsEmpty(resp) ==
    /\ pc = "AwaitingModel" /\ ~has_tool_calls(resp) /\ ~has_content(resp)
    /\ response' = resp
    /\ execution_log' = Append(execution_log, step_entry(i, "Final response"))
    /\ LET opts == chat_options(chat_reply(messages, resp), SUMMARY_REQUEST, None)
       IN  /\ messages' = opts.messages
           /\ sent' = opts
    /\ gateway_calls' = gateway_calls + 1
    /\ pc' = "AwaitingSummary"
    /\ UNCHANGED <<no_think, custom_system_prompt, max_iterations,
                   available_functions, tools, mode, instructions, i,
                   final_response, k, results, returned, raised, first_sent,
                   invoked, effects, subprocesses, tasks,
                   registrations,
                   request, files, last_call>>

\* the recovery call returns
SummaryReturns(resp) ==
    /\ pc = "AwaitingSummary"
    /\ messages' = chat_reply(messages, resp)
    /\ final_response' = resp
    /\ returned' = Str(FinalText(resp.content, execution_log))
    /\ pc' = "Done"
    /\ UNCHANGED <<no_think, custom_system_prompt, max_iterations,
                   available_functions, tools, mode, instructions, i,
                   execution_log, response, k, results, raised, sent,
                   first_sent, gateway_calls, invoked, effects, subprocesses,
                   tasks,
                   registrations,
                   request, files, last_call>>

-----------------------------------------------------------------------------
(* Tools.process_tool_calls, one request at a time *)

tool_call == response.tool_calls[k]
function_name == tool_call.function.name
function_args == tool_call.function.arguments

\* mutant: an unknown name resolves to a default callable
is_registered_or_default(name) == TRUE

\* function_name in self.available_functions
is_registered(name) == name \in available_functions

\* the command or file access of the request at hand, and whether the
\* request asked for a background command
Effect ==
    [turn |-> i, position |-> k,
     background |-> get(function_args, "is_background", FALSE)]

\* mutant: the newest result is put first
Record_newest_first(text) ==
    /\ messages' = add_message(messages, "tool", text, Str(function_name))
    /\ results' = <<text>> \o results
    /\ k' = k + 1

\* the tool message and the result entry of the request at hand
Record(text) ==
    /\ messages' = add_message(messages, "tool", text, Str(function_name))
    /\ results' = Append(results, text)
    /\ k' = k + 1

\* the request names no registered function
ToolNotFound ==
    /\ pc = "Dispatching" /\ k <= Len(response.tool_calls)
    /\ ~is_registered(function_name)
    /\ Record(not_found_text(function_name))
    /\ UNCHANGED <<no_think, custom_system_prompt, max_iterations,
                   available_functions, tools, pc, mode, instructions, i,
                   execution_log, response, final_response, returned, raised,
                   sent, first_sent, gateway_calls, invoked, effects,
                   subprocesses, tasks,
                   registrations,
                   request, files, last_call>>

\* the registered callable of the request is called
InvokeTool ==
    /\ pc = "Dispatching" /\ k <= Len(response.tool_calls)
    /\ is_registered(function_name)
    /\ invoked' = Append(invoked, <<i, k>>)
    /\ pc' = "InTool"
    /\ UNCHANGED <<messages, no_think, custom_system_prompt, max_iterations,
                   available_functions, tools, mode, instructions, i,
                   execution_log, response, final_response, k, results,
                   returned, raised, sent, first_sent, gateway_calls, effects,
                   subprocesses, tasks,
                   registrations,
                   request, files, last_call>>

\* the next request of the response is looked up in available_functions
ProcessToolCall ==
    /\ pc = "Dispatching" /\ k <= Len(response.tool_calls)
    /\ IF is_registered(function_name) THEN InvokeTool ELSE ToolNotFound

\* mutant: an exception of the callable leaves process_tool_calls
ToolCompletes_or_propagates(confirmation) ==
    /\ pc = "InTool"
    /\ LET call == call_function(function_name, function_args, confirmation)
       IN  IF call.outcome.kind = "raise"
           THEN /\ raised' = Str(call.outcome.message)
                /\ pc' = "Failed"
                /\ UNCHANGED <<messages, results, k, effects, subprocesses>>
           ELSE /\ Record(result_text(function_name, call.outcome))
                /\ effects' = IF call.effect = "done"
                              THEN Append(effects, Effect) ELSE effects
                /\ subprocesses' = IF call.effect = "background"
                                   THEN subprocesses \cup {Effect}
                                   ELSE subprocesses
                /\ pc' = "Dispatching"
                /\ UNCHANGED raised
    /\ UNCHANGED <<no_think, custom_system_prompt, max_iterations,
                   available_functions, tools, mode, instructions, i,
                   execution_log, response, final_response, returned,
                   sent, first_sent, gateway_calls, invoked, tasks,
                   registrations,
                   request, files, last_call>>

\* the callable returns or raises; both end in a tool message
ToolCompletes(confirmation) ==
    /\ pc = "InTool"
    /\ LET call == call_function(function_name, function_args, confirmation)
       IN  /\ Record(result_text(function_name, call.outcome))
           /\ effects' = IF call.effect = "done"
                         THEN Append(effects, Effect) ELSE effects
           /\ subprocesses' = IF call.effect = "background"
                              THEN subprocesses \cup {Effect}
                              ELSE subprocesses
    /\ pc' = "Dispatching"
    /\ UNCHANGED <<no_think, custom_system_prompt, max_iterations,
                   available_functions, tools, mode, instructions, i,
                   execution_log, response, final_response, returned, raised,
                   sent, first_sent, gateway_calls, invoked, tasks,
                   registrations,
                   request, files, last_call>>

\* a command left in the background runs in the workspace
BackgroundCommandRuns ==
    \E p \in subprocesses :
        /\ effects' = Append(effects, p)
        /\ subprocesses' = subprocesses \ {p}
        /\ UNCHANGED <<messages, no_think, custom_system_prompt,
                       max_iterations, available_functions, tools, pc, mode,
                       instructions, i, execution_log, response,
                       final_response, k, results, returned, raised, sent,
                       first_sent, gateway_calls, invoked, tasks,
                   registrations,
                   request, files, last_call>>

\* mutant: the loop variable is not advanced
DispatchReturns_same_iteration ==
    /\ pc = "Dispatching" /\ k > Len(response.tool_calls)
    /\ pc' = "Loop"
    /\ UNCHANGED <<messages, no_think, custom_system_prompt, max_iterations,
                   available_functions, tools, mode, instructions, i,
                   execution_log, response, final_response, k, results,
                   returned, raised, sent, first_sent, gateway_calls, invoked,
                   effects, subprocesses, tasks,
                   registrations,
                   request, files, last_call>>

\* process_tool_calls returns; the loop goes to its next iteration
DispatchReturns ==
    /\ pc = "Dispatching" /\ k > Len(response.tool_calls)
    /\ i' = i + 1
    /\ pc' = "Loop"
    /\ UNCHANGED <<messages, no_think, custom_system_prompt, max_iterations,
                   available_functions, tools, mode, instructions,
                   execution_log, response, final_response, k, results,
                   returned, raised, sent, first_sent, gateway_calls, invoked,
                   effects, subprocesses, tasks,
                   registrations,
                   request, files, last_call>>

-----------------------------------------------------------------------------
(* CodeAgent.interactive *)

\* interactive up to its chat call
interactive(user_message) ==
    /\ Idle /\ tasks < MaxTasks
    /\ tasks' = tasks + 1
    /\ mode' = "interactive"
    /\ instructions' = user_message
    /\ LET opts == chat_options(seed(messages, interactive_system_prompt,
                                     user_message), "", PyList(tools))
       IN  /\ messages' = opts.messages
           /\ sent' = opts
           /\ first_sent' = opts
    /\ gateway_calls' = 1
    /\ execution_log' = <<>>
    /\ i' = 0
    /\ pc' = "AwaitingPlan"
    /\ response' = NoResponse /\ final_response' = NoResponse
    /\ k' = 0 /\ results' = <<>>
    /\ returned' = None /\ raised' = None
    /\ invoked' = <<>> /\ effects' = <<>> /\ subprocesses' = {}
    /\ UNCHANGED <<no_think, custom_system_prompt, max_iterations,
                   available_functions, tools,
                   registrations,
                   files, last_call>>

\* a caller of the agent awaits interactive(user_message)
StartInteractive(user_message) ==
    interactive(user_message) /\ UNCHANGED request

\* mutant: interactive dispatches the tool calls of the plan
PlanReturns_and_dispatches(resp) ==
    /\ pc = "AwaitingPlan"
    /\ messages' = chat_reply(messages, resp)
    /\ response' = resp
    /\ IF resp.tool_calls # <<>>
       THEN /\ pc' = "Dispatching" /\ k' = 1 /\ UNCHANGED returned
       ELSE /\ pc' = "Done" /\ returned' = Str(resp.content) /\ UNCHANGED k
    /\ UNCHANGED <<no_think, custom_system_prompt, max_iterations,
                   available_functions, tools, mode, instructions, i,
                   execution_log, final_response, results, raised, sent,
                   first_sent, gateway_calls, invoked, effects, subprocesses,
                   tasks,
                   registrations,
                   request, files, last_call>>

\* the chat call of interactive returns: its content is the plan
PlanReturns(resp) ==
    /\ pc = "AwaitingPlan"
    /\ messages' = chat_reply(messages, resp)
    /\ response' = resp
    /\ returned' = Str(resp.content)
    /\ pc' = "Done"
    /\ UNCHANGED <<no_think, custom_system_prompt, max_iterations,
                   available_functions, tools, mode, instructions, i,
                   execution_log, final_response, k, results, raised, sent,
                   first_sent, gateway_calls, invoked, effects, subprocesses,
                   tasks,
                   registrations,
                   request, files, last_call>>

-----------------------------------------------------------------------------
(* Registrations on a Tools *)

\* the functions passed to register_function
RegisteredFunctions == {"read_file", "list_dir"}

\* the custom_schema passed along with the function func_name: none, one
\* that agrees with the function, one under another name and one that lists
\* a parameter with a default value as required
CustomSchemas(func_name) ==
    { None,
      Schema(func_name, mandatory(func_name)),
      Schema("open_" \o func_name, mandatory(func_name)),
      Schema(func_name, mandatory(func_name) \cup {"explanation"}) }

Registry == [available_functions |-> available_functions, tools |-> tools]

\* CodeAgent.register_tools on a Tools() nothing was registered on
RegisterTools ==
    /\ pc = "Idle" /\ tools = <<>>
    /\ LET reg == register_tools(Registry)
       IN  /\ available_functions' = reg.available_functions
           /\ tools' = reg.tools
    /\ UNCHANGED <<messages, no_think, custom_system_prompt, max_iterations,
                   pc, mode, instructions, i, execution_log, response,
                   final_response, k, results, returned, raised, sent,
                   gateway_calls, invoked, effects, subprocesses, tasks,
                   first_sent, registrations,
                   request, files, last_call>>

\* a call of Tools.register_function: it returns None and raises nothing
RegisterFunction(func_name, custom_schema) ==
    /\ pc = "Idle" /\ Len(registrations) < MaxRegistrations
    /\ LET reg == register_function(Registry, func_name, custom_schema)
       IN  /\ available_functions' = reg.available_functions
           /\ tools' = reg.tools
    /\ registrations' = Append(registrations,
                               [func_name |-> func_name,
                                custom_schema |-> custom_schema])
    /\ returned' = None /\ raised' = None
    /\ UNCHANGED <<messages, no_think, custom_system_prompt, max_iterations,
                   pc, mode, instructions, i, execution_log, response,
                   final_response, k, results, sent, gateway_calls, invoked,
                   effects, subprocesses, tasks, first_sent, request,
                   files, last_call>>

-----------------------------------------------------------------------------
(* The file tools of register_file_tools, called directly *)

\* a path of the workspace: its name up to the extension, and the extension
\* ('' for a name without a dot)
Path(stem, ext) == [stem |-> stem, ext |-> ext]

\* the path as the text the messages of a tool show
path_text(file) == file.stem \o file.ext

\* the paths the calls name: text files, a Python file, a file whose
\* extension is not in allowed_extensions, a file without an extension and a
\* file that does not exist
Paths ==
    { Path("notes", ".md"), Path("app", ".py"), Path("settings", ".cfg"),
      Path("Makefile", ""), Path("missing", ".txt") }

\* the files that exist, each a text given as the sequence of its words
Workspace ==
    [f \in Paths \ {Path("missing", ".txt")} |->
        IF f.ext = ".py" THEN <<"x", "=", "TODO">>
        ELSE <<"TODO", "x", "TODO">>]

\* old_str and new_str of a call of text_file_edit
Words == {"TODO", "DONE", "y"}

allowed_extensions ==
    {".md", ".txt", ".sh", ".bash", ".json", ".yml", ".yaml", ".html", ".css",
     ".js", ".jsx", ".ts", ".tsx", ".xml", ".csv"}

\* content.count(old_str)
count(content, old_str) ==
    Cardinality({j \in 1..Len(content) : content[j] = old_str})

\* content.replace(old_str, new_str)
replace(content, old_str, new_str) ==
    [j \in 1..Len(content) |->
        IF content[j] = old_str THEN new_str ELSE content[j]]

\* text_file_edit(file, old_str, new_str) on the files of workspace: the text
\* it returns (without the diff that follows the last one) and the files
\* afterwards
text_file_edit(workspace, file, old_str, new_str) ==
    IF file \notin DOMAIN workspace
    THEN [result |-> Str("Error: File " \o path_text(file) \o " not found"),
          files |-> workspace]
    ELSE IF file.ext = ".py"
    THEN [result |-> Str("Error: This tool is intended for non-Python files like .md, .txt, .sh. For Python files, use python_edit_file instead."),
          files |-> workspace]
    ELSE IF file.ext \notin allowed_extensions /\ file.ext # ""
    THEN [result |-> Str("Warning: File " \o path_text(file)
                         \o " may not be a text file. Proceeding anyway, but be cautious."),
          files |-> workspace]
    ELSE IF count(workspace[file], old_str) = 0
    THEN [result |-> Str("Error: String '" \o old_str \o "' not found in "
                         \o path_text(file)),
          files |-> workspace]
    ELSE [result |-> Str("Successfully replaced "
                         \o ToString(count(workspace[file], old_str))
                         \o " occurrence(s) of the specified string in "
                         \o path_text(file)),
          files |-> [workspace EXCEPT
                        ![file] = replace(workspace[file], old_str, new_str)]]

\* a direct call of text_file_edit
TextFileEdit(file, old_str, new_str) ==
    /\ pc = "Idle"
    /\ LET call == text_file_edit(files, file, old_str, new_str)
       IN  /\ files' = call.files
           /\ last_call' = [function |-> "text_file_edit", file |-> file,
                            old_str |-> old_str, new_str |-> new_str,
                            result |-> call.result]
    /\ UNCHANGED <<messages, no_think, custom_system_prompt, max_iterations,
                   available_functions, tools, pc, mode, instructions, i,
                   execution_log, response, final_response, k, results,
                   returned, raised, sent, first_sent, gateway_calls, invoked,
                   effects, subprocesses, tasks, registrations, request>>

\* the line limits of read_file
LineLimit == 250
LineMinimum == 200

Min(a, b) == IF a <= b THEN a ELSE b
Max(a, b) == IF a >= b THEN a ELSE b

\* lines[a:b] of a Python list, for a >= 0 and any b
slice(lines, a, b) ==
    LET n == Len(lines)
        from == Min(a, n)
        to == Min(IF b < 0 THEN Max(0, n + b) ELSE b, n)
    IN  SubSeq(lines, from + 1, to)

\* start_idx of read_file
start_idx(start_line) == Max(0, start_line - 1)

\* end_idx of read_file for a file of n lines, after the two line limits
end_idx(n, start_line, end_line) ==
    LET first == start_idx(start_line)
        asked == Min(end_line.value - 1, n - 1)
        last == IF end_line = None THEN Min(first + LineLimit, n)
                ELSE IF asked - first + 1 > LineLimit
                     THEN first + LineLimit - 1
                     ELSE asked
    IN  IF last - first + 1 < LineMinimum /\ n >= LineMinimum
        THEN Min(first + LineMinimum - 1, n - 1)
        ELSE last

\* what read_file returns of the lines of a file: the lines it selected and
\* the range its header announces
read_file_lines(lines, start_line, end_line, should_read_entire_file) ==
    IF should_read_entire_file
    THEN [selected |-> lines, start_line |-> 1, end_line |-> Len(lines)]
    ELSE LET first == start_idx(start_line)
             last == end_idx(Len(lines), start_line, end_line)
         IN  [selected |-> slice(lines, first, last + 1),
              start_line |-> first + 1, end_line |-> last + 1]

\* the lengths of the files read, the start lines and the end lines asked for
FileLengths == {0, 199, 200, 251, 300}
StartLines == {0, 1, 100}
EndLines == {None, PyInt(0), PyInt(250), PyInt(400)}

\* f.readlines() of a file of n lines
readlines(n) == [j \in 1..n |-> "line\n"]

\* a direct call of read_file on a file of n lines
ReadFile(n, start_line, end_line, should_read_entire_file) ==
    /\ pc = "Idle"
    /\ last_call' =
         [function |-> "read_file", length |-> n, start_line |-> start_line,
          end_line |-> end_line,
          should_read_entire_file |-> should_read_entire_file,
          result |-> read_file_lines(readlines(n), start_line, end_line,
                                     should_read_entire_file)]
    /\ UNCHANGED <<messages, no_think, custom_system_prompt, max_iterations,
                   available_functions, tools, pc, mode, instructions, i,
                   execution_log, response, final_response, k, results,
                   returned, raised, sent, first_sent, gateway_calls, invoked,
                   effects, subprocesses, tasks, registrations, request,
                   files>>

-----------------------------------------------------------------------------
(* The front ends: OpenCursorGradioUI and OpenCursorApp *)

\* nothing was submitted yet
NoSubmission == [front_end |-> "none", selection |-> ""]

\* CodeAgent.__call__
__call__(user_message) == autonomous_mode(user_message)

\* the entries of the Tool dropdown that reach the agent
AgentTools == {"agent (autonomous)", "agent (interactive)"}

\* OpenCursorGradioUI.process_message for a tool of AgentTools, up to the
\* first await of the entry point it calls
process_message(message, tool) ==
    /\ request' = [front_end |-> "gradio_ui", selection |-> tool]
    /\ IF tool = "agent (autonomous)"
       THEN __call__(message)
       ELSE __call__("/interactive " \o message)

\* what the user types at the prompt of the terminal app
Commands == {"", "/agent", "/interactive"}

\* one round of OpenCursorApp.run for a line of input that reaches the agent:
\* current_mode is set, then process_command or the default branch awaits the
\* entry point
run(command, args) ==
    /\ request' = [front_end |-> "app",
                   selection |-> IF command = "/interactive"
                                 THEN "Interactive" ELSE "Agent"]
    /\ IF command = "/interactive" THEN interactive(args) ELSE __call__(args)

-----------------------------------------------------------------------------
(* The specification *)

\* the fields of a CodeAgent whose Tools holds the registry reg
Fields(reg, think_flags, system_prompts, cap) ==
    /\ messages = <<>>
    /\ no_think \in think_flags
    /\ custom_system_prompt \in system_prompts
    /\ max_iterations = cap
    /\ available_functions = reg.available_functions
    /\ tools = reg.tools
    /\ pc = "Idle"
    /\ mode = "none"
    /\ instructions = ""
    /\ i = 0
    /\ execution_log = <<>>
    /\ response = NoResponse /\ final_response = NoResponse
    /\ k = 0 /\ results = <<>>
    /\ returned = None /\ raised = None
    /\ sent = NoRequest /\ first_sent = NoRequest /\ gateway_calls = 0
    /\ invoked = <<>> /\ effects = <<>> /\ subprocesses = {}
    /\ tasks = 0
    /\ registrations = <<>>
    /\ request = NoSubmission
    /\ files = Workspace
    /\ last_call = None

\* the state after CodeAgent.__init__
Constructed(think_flags, system_prompts, cap) ==
    Fields(register_tools(EmptyRegistry), think_flags, system_prompts, cap)

\* a response to a call made with tools disabled holds no tool call
TextResponses == {r \in Responses : r.tool_calls = <<>>}

\* CodeAgent() with the default system_prompt=None and no_think=True
Init == Constructed({TRUE}, {None}, MaxIterations)

Next ==
    \/ \E m \in Instructions : StartAutonomous(m)
    \/ \E m \in Instructions : StartInteractive(m)
    \/ LoopChat
    \/ LoopCapped
    \/ ChatFails
    \/ \E r \in Responses : ChatReturnsToolCalls(r)
    \/ \E r \in Responses : ChatReturnsFinal(r)
    \/ \E r \in Responses : ChatReturnsEmpty(r)
    \/ \E r \in TextResponses : SummaryReturns(r)
    \/ \E r \in Responses : PlanReturns(r)
    \/ ProcessToolCall
    \/ \E c \in Confirmations : ToolCompletes(c)
    \/ DispatchReturns

\* the agent loop: tasks of both modes, one after the other
Spec == Init /\ [][Next]_vars

\* the dispatcher: autonomous tasks of a default CodeAgent whose gateway
\* requests file accesses, failing calls and terminal commands
InitDispatch == Constructed({TRUE}, {None}, DispatchIterations)

NextDispatch ==
    \/ StartAutonomous("Add 2 and 2")
    \/ LoopChat
    \/ LoopCapped
    \/ ChatFails
    \/ \E r \in DispatchResponses : ChatReturnsToolCalls(r)
    \/ \E r \in TextResponses : ChatReturnsFinal(r)
    \/ \E r \in TextResponses : ChatReturnsEmpty(r)
    \/ \E r \in TextResponses : SummaryReturns(r)
    \/ ProcessToolCall
    \/ \E c \in Confirmations : ToolCompletes(c)
    \/ BackgroundCommandRuns
    \/ DispatchReturns

SpecDispatch == InitDispatch /\ [][NextDispatch]_vars

\* the recorded results: autonomous tasks of a default CodeAgent whose
\* gateway requests nameless calls and tools that return text, integers or
\* dicts
InitResults == Constructed({TRUE}, {None}, DispatchIterations)

NextResults ==
    \/ StartAutonomous("Add 2 and 2")
    \/ LoopChat
    \/ LoopCapped
    \/ ChatFails
    \/ \E r \in ResultResponses : ChatReturnsToolCalls(r)
    \/ \E r \in TextResponses : ChatReturnsFinal(r)
    \/ \E r \in TextResponses : ChatReturnsEmpty(r)
    \/ \E r \in TextResponses : SummaryReturns(r)
    \/ ProcessToolCall
    \/ \E c \in Confirmations : ToolCompletes(c)
    \/ DispatchReturns

SpecResults == InitResults /\ [][NextResults]_vars

\* the registry: a Tools() on which the tools of the agent are registered and
\* its user registers functions of its own
InitRegistry == Fields(EmptyRegistry, {TRUE}, {None}, MaxIterations)

NextRegistry ==
    \/ RegisterTools
    \/ \E f \in RegisteredFunctions :
          \E s \in CustomSchemas(f) : RegisterFunction(f, s)

SpecRegistry == InitRegistry /\ [][NextRegistry]_vars

\* the configurations: autonomous tasks of the agents CodeAgent(system_prompt,
\* no_think) can construct
InitConfigs == Constructed({TRUE, FALSE}, SystemPrompts, MaxIterations)

NextConfigs ==
    \/ \E m \in Instructions : StartAutonomous(m)
    \/ LoopChat
    \/ LoopCapped
    \/ ChatFails
    \/ \E r \in ConfigResponses : ChatReturnsToolCalls(r)
    \/ \E r \in TextResponses : ChatReturnsFinal(r)
    \/ \E r \in TextResponses : ChatReturnsEmpty(r)
    \/ \E r \in TextResponses : SummaryReturns(r)
    \/ ProcessToolCall
    \/ \E c \in Confirmations : ToolCompletes(c)
    \/ DispatchReturns

SpecConfigs == InitConfigs /\ [][NextConfigs]_vars

\* the runs in which every call of client.chat and every callable returns:
\* each await of autonomous_mode is resumed
NextReturning ==
    \/ \E m \in Instructions : StartAutonomous(m)
    \/ LoopChat
    \/ LoopCapped
    \/ \E r \in ConfigResponses : ChatReturnsToolCalls(r)
    \/ \E r \in TextResponses : ChatReturnsFinal(r)
    \/ \E r \in TextResponses : ChatReturnsEmpty(r)
    \/ \E r \in TextResponses : SummaryReturns(r)
    \/ ProcessToolCall
    \/ \E c \in Confirmations : ToolCompletes(c)
    \/ DispatchReturns

SpecReturning ==
    InitConfigs /\ [][NextReturning]_vars /\ WF_vars(NextReturning)

\* the file tools: direct calls of read_file and text_file_edit on the
\* workspace of an idle agent
InitFileTools == Constructed({TRUE}, {None}, MaxIterations)

NextFileTools ==
    \/ \E n \in FileLengths, a \in StartLines, b \in EndLines, e \in BOOLEAN :
          ReadFile(n, a, b, e)
    \/ \E f \in Paths, o \in Words, n \in Words : TextFileEdit(f, o, n)

SpecFileTools == InitFileTools /\ [][NextFileTools]_vars

\* the front ends: the requests of the Gradio UI and of the terminal app on
\* a default CodeAgent
InitFrontEnds == Constructed({TRUE}, {None}, DispatchIterations)

NextFrontEnds ==
    \/ \E m \in Instructions, t \in AgentTools : process_message(m, t)
    \/ \E c \in Commands, m \in Instructions : run(c, m)
    \/ LoopChat
    \/ LoopCapped
    \/ ChatFails
    \/ \E r \in ConfigResponses : ChatReturnsToolCalls(r)
    \/ \E r \in TextResponses : ChatReturnsFinal(r)
    \/ \E r \in TextResponses : ChatReturnsEmpty(r)
    \/ \E r \in TextResponses : SummaryReturns(r)
    \/ \E r \in ConfigResponses : PlanReturns(r)
    \/ ProcessToolCall
    \/ \E c \in Confirmations : ToolCompletes(c)
    \/ DispatchReturns

SpecFrontEnds == InitFrontEnds /\ [][NextFrontEnds]_vars

TypeOK ==
    /\ pc \in {"Idle", "Loop", "AwaitingModel", "Dispatching", "InTool",
               "AwaitingSummary", "AwaitingPlan", "Done", "Failed"}
    /\ i \in 0..max_iterations
    /\ tasks \in 0..MaxTasks

-----------------------------------------------------------------------------
(* The claims *)

Autonomous == mode = "autonomous"

AssistantMessage(content) == [role |-> "assistant", content |-> Str(content)]

ToolMessage(name, text) == [role |-> "tool", content |-> Str(text), name |-> name]

\* the loop received a response without tool calls: its log entry is the last
TerminalTurn ==
    /\ Autonomous /\ response.tool_calls = <<>>
    /\ execution_log # <<>>
    /\ execution_log[Len(execution_log)]
         = "Step " \o ToString(i + 1) \o ": Final response"

\* C1: a response of the loop that holds tool calls never ends the task,
\* whatever its content: the step that receives it appends the assistant
\* message, returns nothing and starts the dispatch; when the dispatch is over
\* every tool call of the turn has a result and the loop is back at its head;
\* a task whose last response held tool calls only ends capped or failed.
C1_ToolCallsNonTerminal ==
    /\ [][(pc = "AwaitingModel" /\ pc' # "Failed" /\ response'.tool_calls # <<>>)
          => /\ pc' = "Dispatching"
             /\ messages' = Append(messages, AssistantMessage(response'.content))
             /\ returned' = None]_vars
    /\ [](Autonomous /\ response.tool_calls # <<>>
          => /\ pc \in {"Dispatching", "InTool", "Loop", "AwaitingModel",
                        "Done", "Failed"}
             /\ pc \in {"Loop", "AwaitingModel", "Done", "Failed"}
                  => Len(results) = Len(response.tool_calls)
             /\ pc = "Done"
                  => returned = Str(CappedText(max_iterations, execution_log)))

C1_Witness ==
    /\ Autonomous /\ pc = "AwaitingModel" /\ gateway_calls = 2
    /\ response.content = "The result is 4"
    /\ Len(response.tool_calls) = 2 /\ Len(results) = 2

\* C2: when every response of the task held a tool call, the task ends after
\* exactly max_iterations gateway calls, with no exception and with the capped
\* text (it holds 'maximum number of steps') followed by the summary header
\* and the log entries; it never makes more than max_iterations calls.
C2_CappedAfterMaxIterations ==
    (Autonomous /\ response.tool_calls # <<>>)
    => /\ gateway_calls <= max_iterations
       /\ pc = "Done"
            => /\ gateway_calls = max_iterations
               /\ raised = None
               /\ returned =
                    Str("I've reached the maximum number of steps ("
                        \o ToString(max_iterations)
                        \o ") without completing the task. Here's what I've done so far:"
                        \o "\n\n[Execution Summary]\n"
                        \o join("\n", execution_log))
               /\ Len(execution_log) >= max_iterations

C2_Witness ==
    /\ Autonomous /\ pc = "Done" /\ response.tool_calls # <<>>
    /\ gateway_calls = max_iterations /\ returned # None

\* C3: after a response of the loop with no tool call and empty content the
\* task makes one more gateway call, with tools = None, and no other: the
\* task ends with the content of that call followed by the summary, also when
\* that content is empty.
C3_EmptyTerminalRecovery ==
    (TerminalTurn /\ response.content = "")
    => /\ pc \in {"AwaitingSummary", "Done", "Failed"}
       /\ gateway_calls = i + 2
       /\ sent.tools = None
       /\ pc = "Done"
            => returned = Str(final_response.content \o "\n\n[Execution Summary]\n"
                              \o join("\n", execution_log))

C3_Witness ==
    /\ Autonomous /\ pc = "Done" /\ i = 1
    /\ response.tool_calls = <<>> /\ response.content = ""
    /\ final_response.content = "" /\ gateway_calls = 3

\* the callable of the request at hand raises for the call's arguments
Raising(c) ==
    call_function(function_name, function_args, c).outcome.kind = "raise"

RaisedMessage(c) ==
    call_function(function_name, function_args, c).outcome.message

\* C4: an exception of a tool's callable (a call with a missing argument
\* included) never leaves process_tool_calls: the step records the tool
\* message 'Error executing <name>: <message>' as the result and goes on to the
\* next request; every request of the turn gets its result and the loop goes
\* to its next iteration; the only exception that ends a task is the gateway's.
C4_ToolExceptionsAbsorbed ==
    /\ [][\A c \in Confirmations :
            (pc = "InTool" /\ Raising(c) /\ pc' # pc)
            => /\ pc' = "Dispatching" /\ k' = k + 1
               /\ raised' = None
               /\ messages' = Append(messages,
                     ToolMessage(function_name,
                                 "Error executing " \o function_name \o ": "
                                 \o RaisedMessage(c)))
               /\ results' = Append(results,
                     Str("Error executing " \o function_name \o ": "
                         \o RaisedMessage(c)))]_vars
    /\ [][(pc = "Dispatching" /\ k > Len(response.tool_calls) /\ pc' # pc)
          => (pc' = "Loop" /\ i' = i + 1
              /\ Len(results) = Len(response.tool_calls))]_vars
    /\ [](raised # None => (pc = "Failed" /\ raised = Str("GatewayUnavailable")))

C4_Witness ==
    /\ pc = "Loop" /\ i = 1
    /\ Len(response.tool_calls) = 2
    /\ response.tool_calls[1] = ToolCall("read_file", EmptyArgs)
    /\ response.tool_calls[2] = ToolCall("read_file", [target_file |-> "a.py"])
    /\ results[2] = Str("Contents of a.py")

\* C5: the conversation sent with the first gateway call of a second or later
\* task is exactly the system message of the task's mode followed by the user
\* message 'Task: <instructions>' of that task, whatever the earlier task left.
C5_ResetIsolation ==
    (tasks >= 2 /\ gateway_calls >= 1)
    => first_sent.messages =
         << [role |-> "system",
             content |-> IF custom_system_prompt # None THEN custom_system_prompt
                         ELSE IF mode = "autonomous" THEN Str(SYSTEM_PROMPT)
                         ELSE Str(INTERACTIVE_AGENT_PROMPT)],
            [role |-> "user", content |-> Str("Task: " \o instructions)] >>

C5_Witness ==
    /\ tasks = 2 /\ Autonomous /\ gateway_calls = 2 /\ pc = "AwaitingModel"
    /\ Len(first_sent.messages) = 2 /\ Len(messages) > 2

\* C6: within a task the conversation only grows at its end: every step keeps
\* the messages it found, in their order and unmodified, and each gateway call
\* is sent the conversation as it stands.
C6_AppendOrderKept ==
    /\ [][tasks' = tasks
          => /\ Len(messages') >= Len(messages)
             /\ SubSeq(messages', 1, Len(messages)) = messages]_vars
    /\ [][(gateway_calls' > 0
             /\ (gateway_calls' # gateway_calls \/ tasks' # tasks))
          => sent'.messages = messages']_vars

C6_Witness ==
    /\ pc = "AwaitingModel" /\ gateway_calls = 2 /\ Len(messages) = 5
    /\ messages[1].role = "system" /\ messages[2].role = "user"
    /\ messages[3].role = "assistant" /\ messages[4].role = "tool"
    /\ messages[5].role = "tool" /\ sent.messages = messages

Awaiting == pc \in {"AwaitingModel", "AwaitingSummary", "AwaitingPlan"}

\* C7: a gateway call that ends without a response ends the task at once with
\* the exception and no returned text; from then on the task makes no gateway
\* call, calls no tool and appends no message, until another task is started.
C7_GatewayFailureFatal ==
    /\ [][(Awaiting /\ pc' # pc /\ messages' = messages)
          => (pc' = "Failed" /\ raised' # None /\ returned' = None
              /\ gateway_calls' = gateway_calls)]_vars
    /\ [][pc = "Failed"
          => \/ tasks' # tasks
             \/ /\ pc' = "Failed" /\ gateway_calls' = gateway_calls
                /\ invoked' = invoked /\ messages' = messages
                /\ returned' = None]_vars
    /\ [](pc = "Failed" => (returned = None /\ raised # None))

C7_Witness ==
    /\ Autonomous /\ pc = "Failed" /\ gateway_calls = 2
    /\ execution_log # <<>> /\ returned = None

C9_NonEmptyContentIsFinal ==
    (TerminalTurn /\ response.content # "")
    => /\ pc = "Done"
       /\ gateway_calls = i + 1
       /\ returned = Str(response.content \o "\n\n[Execution Summary]\n"
                         \o join("\n", execution_log))

\* C9 amended: a response of the loop with no tool call whose content is not
\* empty once stripped of whitespace ends the task with no further gateway
\* call, and the returned text is the content, the '[Execution Summary]' header
\* and the log entries, one per line.
C9_NonBlankContentIsFinal ==
    (TerminalTurn /\ response.content \notin {"", " ", "\n"})
    => /\ pc = "Done"
       /\ gateway_calls = i + 1
       /\ returned = Str(response.content \o "\n\n[Execution Summary]\n"
                         \o join("\n", execution_log))

C9_Witness ==
    /\ TerminalTurn /\ pc = "Done" /\ i = 1 /\ gateway_calls = 2
    /\ response.content = "The result is 4"
    /\ Len(execution_log) >= 2

\* positions a < b of a sequence of (turn, position) records of one turn are
\* in request order
InRequestOrder(seq) ==
    \A a, b \in 1..Len(seq) :
        (a < b /\ seq[a].turn = seq[b].turn) => seq[a].position < seq[b].position

RECURSIVE Foreground(_)
Foreground(seq) ==
    IF seq = <<>> THEN <<>>
    ELSE IF seq[1].background THEN Foreground(Tail(seq))
    ELSE <<seq[1]>> \o Foreground(Tail(seq))

\* the callables of a turn are called one at a time in request order, each
\* after the callable of the request before it has returned and its tool
\* message has been appended
CalledOneAtATime ==
    /\ \A a, b \in 1..Len(invoked) :
          a < b => \/ invoked[a][1] < invoked[b][1]
                   \/ invoked[a][1] = invoked[b][1] /\ invoked[a][2] < invoked[b][2]
    /\ pc = "InTool"
         => /\ invoked[Len(invoked)] = <<i, k>>
            /\ Len(results) = k - 1
            /\ \A j \in 1..(k - 1) :
                  LET m == messages[Len(messages) - (k - 1) + j]
                  IN  /\ m.role = "tool"
                      /\ m.content = results[j]
                      /\ m.name = response.tool_calls[j].function.name

\* C10 as stated: the callables of a turn are called one at a time in request
\* order, each after the one before it has completed and its tool message has
\* been appended, so that the commands and file accesses of the turn happen in
\* request order.
C10_EffectsInRequestOrder ==
    /\ CalledOneAtATime
    /\ InRequestOrder(effects)

\* C10 amended: the callables of a turn are called one at a time in request
\* order, each after the callable of the request before it has returned and
\* its tool message has been appended; the commands and file accesses of the
\* requests that do not ask for a background command happen in request order,
\* each before the next callable is called, and only a command requested with
\* is_background is still running when a later callable is called.
C10_CallsInRequestOrder ==
    /\ CalledOneAtATime
    /\ pc = "InTool"
         => /\ \A p \in subprocesses : (p.turn = i /\ p.position < k) => p.background
            /\ \A e \in 1..Len(effects) :
                  effects[e].turn = i => effects[e].position < k
                                         \/ effects[e].background
    /\ \A p \in subprocesses : p.background
    /\ InRequestOrder(Foreground(effects))

C10_Witness ==
    /\ pc = "Dispatching" /\ k = 3
    /\ response.tool_calls[1].function.name = "run_terminal_cmd"
    /\ ~response.tool_calls[1].function.arguments.is_background
    /\ response.tool_calls[2] = ToolCall("read_file", [target_file |-> "a.py"])
    /\ invoked = << <<0, 1>>, <<0, 2>> >>
    /\ Len(effects) = 2 /\ effects[1].position = 1 /\ effects[2].position = 2

-----------------------------------------------------------------------------
(* Claims C11 to C20 *)

\* C11: every tool message of the conversation has an assistant message
\* somewhere before it, and it is appended for a request of the response that
\* this assistant message records: the assistant message of the turn sits
\* right before the turn's tool messages, holds the content of the response
\* and the tool message is named after the request at hand.
C11_ToolMessagePreceded ==
    /\ [](\A t \in 1..Len(messages) :
             messages[t].role = "tool"
             => \E a \in 1..(t - 1) : messages[a].role = "assistant")
    /\ [][(Len(messages') = Len(messages) + 1
             /\ messages'[Len(messages')].role = "tool")
          => /\ pc \in {"Dispatching", "InTool"}
             /\ k <= Len(response.tool_calls)
             /\ Len(messages) - (k - 1) >= 1
             /\ messages[Len(messages) - (k - 1)]
                  = AssistantMessage(response.content)
             /\ messages'[Len(messages')].name
                  = response.tool_calls[k].function.name]_vars

C11_Witness ==
    /\ pc = "Dispatching" /\ k = 3 /\ i = 1
    /\ messages[Len(messages)].role = "tool"
    /\ messages[Len(messages) - 1].role = "tool"
    /\ messages[Len(messages) - 2] = AssistantMessage("")

\* C12: a task of interactive starts from a conversation of exactly the
\* system message and the user message 'Task: <instructions>', whatever the
\* tasks before it left; it makes one gateway call, with the registered tools,
\* and no other; it calls no tool and appends no tool message; when the call
\* returns, tool calls in the response or not, the task ends with the content
\* of the response as its value and the assistant message appended.
C12_InteractiveOneCall ==
    mode = "interactive"
    => /\ pc \in {"AwaitingPlan", "Done", "Failed"}
       /\ gateway_calls = 1 /\ sent = first_sent
       /\ sent.messages =
            << [role |-> "system",
                content |-> IF custom_system_prompt # None
                            THEN custom_system_prompt
                            ELSE Str("INTERACTIVE_AGENT_PROMPT")],
               [role |-> "user", content |-> Str("Task: " \o instructions)] >>
       /\ sent.tools = PyList(tools)
       /\ invoked = <<>> /\ results = <<>> /\ effects = <<>>
       /\ \A t \in 1..Len(messages) : messages[t].role # "tool"
       /\ pc = "AwaitingPlan" => messages = sent.messages
       /\ pc = "Done"
            => /\ returned = Str(response.content)
               /\ raised = None
               /\ messages = Append(sent.messages,
                                    AssistantMessage(response.content))

C12_Witness ==
    /\ mode = "interactive" /\ pc = "Done" /\ tasks = 2
    /\ Len(response.tool_calls) = 2
    /\ returned = Str("The result is 4")

\* the step is a call of register_function
Registering == Len(registrations') = Len(registrations) + 1

\* the arguments of the call of a step that is one
registered == registrations'[Len(registrations')]

\* the call is refused: it raises and the registry is as before
Rejected(error) ==
    /\ raised' = Str(error)
    /\ available_functions' = available_functions
    /\ tools' = tools

SchemaNames(schemas) == {schemas[j].name : j \in 1..Len(schemas)}

\* C13: a call of register_function for a function whose name is already a
\* key of available_functions raises DuplicateTool and leaves
\* available_functions and the schema list as they were.
C13_DuplicateRejected ==
    [][(Registering /\ registered.func_name \in available_functions)
       => Rejected("DuplicateTool")]_vars

\* C14: every registered tool has exactly one schema in the schema list, and
\* the names of the schemas of the list, which is the list a gateway call
\* advertises, are pairwise distinct.
C14_OneSchemaPerTool ==
    /\ \A n \in available_functions :
          Cardinality({j \in 1..Len(tools) : tools[j].name = n}) = 1
    /\ \A a, b \in 1..Len(tools) : a # b => tools[a].name # tools[b].name
    /\ sent.tools # None
         => \A a, b \in 1..Len(sent.tools.value) :
               a # b => sent.tools.value[a].name # sent.tools.value[b].name

\* C15: the names of the schemas of the list are the keys of
\* available_functions, and a call of register_function with a schema whose
\* name is not the name of the function is refused.
C15_SchemaNameIsKey ==
    /\ [](SchemaNames(tools) = available_functions)
    /\ [][(Registering /\ registered.custom_schema # None
             /\ registered.custom_schema.name # registered.func_name)
          => Rejected("ConfigurationError")]_vars

\* C16: the parameters a schema of the list marks as required are parameters
\* the function registered under its name has no default value for, and a
\* call of register_function with a schema that requires another parameter is
\* refused.
C16_RequiredAreMandatory ==
    /\ [](\A j \in 1..Len(tools) :
             tools[j].name \in available_functions
             => tools[j].required \subseteq mandatory(tools[j].name))
    /\ [][(Registering /\ registered.custom_schema # None
             /\ ~(registered.custom_schema.required
                    \subseteq mandatory(registered.func_name)))
          => Rejected("ConfigurationError")]_vars

\* C17: every message of the conversation has one of the four roles and every
\* tool message carries a non-empty name; the add_message call for a tool
\* message without a name raises InvalidMessage and appends nothing.
C17_InvalidMessageRejected ==
    /\ [](\A t \in 1..Len(messages) :
             /\ messages[t].role \in {"system", "user", "assistant", "tool"}
             /\ messages[t].role = "tool"
                  => ("name" \in DOMAIN messages[t] /\ messages[t].name # ""))
    /\ [][(pc = "Dispatching" /\ k <= Len(response.tool_calls)
             /\ function_name = "" /\ <<pc, k, raised>>' # <<pc, k, raised>>)
          => (messages' = messages /\ raised' = Str("InvalidMessage"))]_vars

\* process_tool_calls is about to return
Dispatched == pc = "Dispatching" /\ k > Len(response.tool_calls)

\* the tool message the turn appended for its j-th request
TurnMessage(j) == messages[Len(messages) - Len(results) + j]

C20_ToolContentIsText ==
    \A t \in 1..Len(messages) :
        messages[t].role = "tool" => messages[t].content.type = "str"

\* C18: the system message of an autonomous task is the prompt that forbids
\* clarification questions, the system message of an interactive task is the
\* prompt that asks for one tool call at a time and the user's approval
\* between the steps, and the two modes of an agent never seed the same
\* system message.
C18_PromptFollowsMode ==
    /\ (mode = "autonomous" /\ messages # <<>>)
         => /\ messages[1].role = "system"
            /\ forbids_clarification(messages[1].content.value)
    /\ (mode = "interactive" /\ messages # <<>>)
         => /\ messages[1].role = "system"
            /\ requires_approval(messages[1].content.value)
    /\ autonomous_system_prompt # interactive_system_prompt

-----------------------------------------------------------------------------
(* Claims C21 to C30 *)

\* an execution-log entry with the 1-based step index
Entry(step_index, description) ==
    "Step " \o ToString(step_index) \o ": " \o description

\* the log entries of the tool calls of a turn, in request order
ToolEntries(step_index, tool_calls) ==
    [j \in 1..Len(tool_calls) |-> Entry(step_index, tool_info(tool_calls[j]))]

\* C22 as stated: the log of a task holds exactly one entry per loop
\* iteration: while the requests of iteration i + 1 are dispatched the log
\* holds i + 1 entries, the last one with step index i + 1.
C22_OneEntryPerIteration ==
    (Autonomous /\ pc \in {"Dispatching", "InTool"})
    => /\ Len(execution_log) = i + 1
       /\ \E tc \in {response.tool_calls[j] : j \in 1..Len(response.tool_calls)} :
             execution_log[Len(execution_log)] = Entry(i + 1, tool_info(tc))

\* C22 amended: the log of a task is only appended to; the step that receives
\* the response of iteration n appends one entry per tool call of the
\* response, in request order, or the single entry 'Final response' when the
\* response holds no tool call, each with the step index n >= 1; a failed
\* call and every other step of the task leave the log as it is.
C22_OneEntryPerToolCall ==
    [][tasks' = tasks
       => IF pc = "AwaitingModel" /\ pc' # "Failed"
          THEN /\ i + 1 >= 1
               /\ execution_log'
                    = execution_log
                      \o (IF response'.tool_calls # <<>>
                          THEN ToolEntries(i + 1, response'.tool_calls)
                          ELSE <<Entry(i + 1, "Final response")>>)
          ELSE execution_log' = execution_log]_vars

C22_Witness ==
    /\ Autonomous /\ pc = "Dispatching" /\ i = 1
    /\ Len(response.tool_calls) = 2
    /\ Len(execution_log) = 3
    /\ execution_log[2] = "Step 2: Reading a.py"
    /\ execution_log[3] = "Step 2: frobnicate"

\* the number of assistant messages of a conversation
Assistants(msgs) ==
    Cardinality({t \in 1..Len(msgs) : msgs[t].role = "assistant"})

\* the response a chat call that returns in this step hands to its caller
Received == IF pc = "AwaitingSummary" THEN final_response' ELSE response'

\* C28: the step in which a chat call returns appends exactly one assistant
\* message, with the content of the response, empty or not, tool calls or
\* not, right after the messages the call was sent with; the tool messages of
\* the response come after it; a chat call that fails appends nothing, and no
\* other step of a task appends an assistant message.
C28_OneAssistantPerChat ==
    /\ [][tasks' = tasks
          => IF Awaiting /\ pc' # "Failed"
             THEN /\ Len(messages') > Len(messages)
                  /\ SubSeq(messages', 1, Len(messages) + 1)
                       = Append(messages, AssistantMessage(Received.content))
                  /\ messages = sent.messages
                  /\ Assistants(messages') = Assistants(messages) + 1
             ELSE /\ Assistants(messages') = Assistants(messages)
                  /\ Awaiting => messages' = messages]_vars
    /\ [](pc \in {"Dispatching", "InTool"}
          => /\ messages[Len(messages) - Len(results)]
                  = AssistantMessage(response.content)
             /\ \A t \in 1..Len(messages) :
                   t > Len(messages) - Len(results) => messages[t].role = "tool")

C28_Witness ==
    /\ pc = "Dispatching" /\ k = 2 /\ gateway_calls = 1
    /\ response.content = "The result is 4"
    /\ messages[Len(messages) - 1] = AssistantMessage("The result is 4")
    /\ messages[Len(messages)].role = "tool"

\* the step is the return of run_terminal_cmd to process_tool_calls
CommandReturns ==
    /\ pc = "InTool" /\ function_name = "run_terminal_cmd"
    /\ pc' = "Dispatching"

\* the step started the command of the request at hand
CommandStarted == effects' # effects \/ subprocesses' # subprocesses

\* C23: a call of run_terminal_cmd starts its command only after the user
\* approved it, whatever arguments the request carries: a call that starts
\* the command is a call that asked the user, and a call that returns 'Command
\* execution cancelled by user' has started nothing.
C23_NoCommandWithoutApproval ==
    [][CommandReturns
       => /\ CommandStarted => get(function_args, "require_user_approval", TRUE)
          /\ messages'[Len(messages')].content
               = Str("Command execution cancelled by user")
             => ~CommandStarted]_vars

\* C26: when process_tool_calls is about to return from a turn with k
\* requests, the conversation is the one the response was received with, the
\* assistant message and k messages after it, all of role tool, the j-th
\* named after the j-th request.
C26_OneNamedMessagePerRequest ==
    Dispatched
    => /\ Len(messages) = Len(sent.messages) + 1 + Len(response.tool_calls)
       /\ SubSeq(messages, 1, Len(sent.messages) + 1)
            = Append(sent.messages, AssistantMessage(response.content))
       /\ \A j \in 1..Len(response.tool_calls) :
             LET m == messages[Len(sent.messages) + 1 + j]
             IN  /\ m.role = "tool"
                 /\ "name" \in DOMAIN m
                 /\ m.name = response.tool_calls[j].function.name

\* the user messages of a conversation
UserMessages(msgs) == {t \in 1..Len(msgs) : msgs[t].role = "user"}

\* the recovery call added one user message to the task's own and the
\* assistant message of the empty response
RecoveryAppended ==
    /\ Cardinality(UserMessages(messages)) = 2
    /\ messages[Len(messages)].role = "user"
    /\ messages[Len(messages) - 1] = AssistantMessage(response.content)
    /\ sent.messages = messages /\ sent.tools = None

\* C25 as stated: the recovery call appends one user message whose content is
\* the fixed instruction and nothing else, in every configuration.
C25_ExactInstruction ==
    pc = "AwaitingSummary"
    => /\ RecoveryAppended
       /\ messages[Len(messages)].content
            = Str("Now that you've completed the task, provide a summary of what you've done.")

\* C25 amended: the recovery call appends one user message; its content is
\* the fixed instruction when no_think is off, and the fixed instruction
\* followed by ' /no_think' when no_think is on, with either system prompt.
C25_InstructionWithThinkTag ==
    pc = "AwaitingSummary"
    => /\ RecoveryAppended
       /\ messages[Len(messages)].content
            = IF no_think
              THEN Str("Now that you've completed the task, provide a summary of what you've done. /no_think")
              ELSE Str("Now that you've completed the task, provide a summary of what you've done.")

C25_Witness ==
    /\ pc = "AwaitingSummary" /\ no_think /\ i = 1
    /\ custom_system_prompt = Str("You are a code reviewer.")
    /\ messages[Len(messages)].content
         = Str("Now that you've completed the task, provide a summary of what you've done. /no_think")

\* C29: in the runs where every gateway call and every callable returns, a
\* task of autonomous_mode makes at most max_iterations + 1 gateway calls,
\* more than max_iterations only by the recovery call, and it always ends:
\* with a text as its value and no exception.
C29_Terminates ==
    /\ [](Autonomous
          => /\ gateway_calls <= max_iterations + 1
             /\ gateway_calls = max_iterations + 1
                  => pc \in {"AwaitingSummary", "Done"} /\ i = max_iterations - 1
             /\ pc = "Done" => returned.type = "str" /\ raised = None)
    /\ (Autonomous /\ pc # "Done") ~> (pc = "Done")

C29_Witness ==
    /\ Autonomous /\ pc = "Done" /\ gateway_calls = max_iterations + 1
    /\ final_response.content = "The result is 4"
    /\ returned.type = "str" /\ tasks = 2

\* C24: a call of read_file that does not ask for the entire file returns at
\* most 250 lines of the file, for every length of the file, start line and
\* end line, given or not, and the lines it returns are lines of the file.
C24_AtMost250Lines ==
    (last_call # None /\ last_call.function = "read_file"
       /\ ~last_call.should_read_entire_file)
    => /\ Len(last_call.result.selected) <= 250
       /\ Len(last_call.result.selected) <= last_call.length

\* the step is a call of text_file_edit on an existing file that is no Python
\* file and whose extension is not in the allowed list
EditOfUnlistedFile ==
    /\ <<files, last_call>>' # <<files, last_call>>
    /\ last_call'.function = "text_file_edit"
    /\ last_call'.file \in DOMAIN files
    /\ last_call'.file.ext
         \notin {".py", "", ".md", ".txt", ".sh", ".bash", ".json", ".yml",
                 ".yaml", ".html", ".css", ".js", ".jsx", ".ts", ".tsx",
                 ".xml", ".csv"}

\* C27: a call of text_file_edit on an existing file that is no Python file
\* and whose extension is not in the allowed list goes on after its warning:
\* when old_str occurs in the file, every occurrence is new_str afterwards,
\* the rest of the file and the other files are as before.
C27_UnlistedExtensionProceeds ==
    [][(EditOfUnlistedFile
          /\ \E j \in 1..Len(files[last_call'.file]) :
                files[last_call'.file][j] = last_call'.old_str)
       => LET f == last_call'.file
          IN  /\ DOMAIN files' = DOMAIN files
              /\ \A g \in DOMAIN files \ {f} : files'[g] = files[g]
              /\ Len(files'[f]) = Len(files[f])
              /\ \A j \in 1..Len(files[f]) :
                    files'[f][j] = IF files[f][j] = last_call'.old_str
                                   THEN last_call'.new_str
                                   ELSE files[f][j]]_vars

\* C30: a request submitted in interactive mode, in the Gradio UI or in the
\* terminal app, is a task of the interactive entry point: one gateway call,
\* no call of a tool, never the autonomous loop.
C30_InteractiveRequestRouted ==
    request.selection \in {"agent (interactive)", "Interactive"}
    => /\ mode = "interactive"
       /\ pc \in {"AwaitingPlan", "Done", "Failed"}
       /\ gateway_calls = 1
       /\ invoked = <<>> /\ results = <<>>

====
